---- MODULE Spec2Model ----
(***************************************************************************)
(* Royalty reconciliation engine of royalty-automated-calculator:          *)
(* RoyaltyCalculator.merge_contracts, read_royalty_statement,              *)
(* _find_matching_song and the payment calculators of                      *)
(* src/src/parser/royalty_calculator.py.                                   *)
(*                                                                         *)
(* Python values are encoded as follows.                                   *)
(*   str    a sequence of one-character strings, "" is <<>>                *)
(*   None   the sequence <<"None">>, which is no str (its element is not   *)
(*          one character)                                                 *)
(*   float  Dy(n, k), the double n / 2^k (n, k small naturals: such a      *)
(*          value is exactly representable)                                *)
(*   a call's outcome carries exc, the name of the exception raised, or    *)
(*          "none"                                                         *)
(***************************************************************************)
EXTENDS Integers, Sequences, FiniteSets, TLC

VARIABLES contracts, merged, call, outcome

vars == <<contracts, merged, call, outcome>>

----------------------------------------------------------------------------
(* Python built-ins used by the engine *)

None == <<"None">>

\* bool(v) for a str, a list or None
Truthy(v) == v # None /\ v # <<>>

UpperCase ==
  <<"A","B","C","D","E","F","G","H","I","J","K","L","M",
    "N","O","P","Q","R","S","T","U","V","W","X","Y","Z">>

LowerCase ==
  <<"a","b","c","d","e","f","g","h","i","j","k","l","m",
    "n","o","p","q","r","s","t","u","v","w","x","y","z">>

lower_char(c) ==
  IF \E i \in DOMAIN UpperCase : UpperCase[i] = c
  THEN LowerCase[CHOOSE i \in DOMAIN UpperCase : UpperCase[i] = c]
  ELSE c

\* str.lower()
lower(s) == [i \in 1..Len(s) |-> lower_char(s[i])]

IsSpace(c) == c \in {" ", "\t", "\n"}

RECURSIVE lstrip(_)
lstrip(s) == IF s # <<>> /\ IsSpace(s[1]) THEN lstrip(Tail(s)) ELSE s

RECURSIVE rstrip(_)
rstrip(s) ==
  IF s # <<>> /\ IsSpace(s[Len(s)]) THEN rstrip(SubSeq(s, 1, Len(s) - 1)) ELSE s

\* str.strip()
strip(s) == rstrip(lstrip(s))

\* sub in s
Contains(sub, s) ==
  \E i \in 0..(Len(s) - Len(sub)) : SubSeq(s, i + 1, i + Len(sub)) = sub

\* 2^k
RECURSIVE Pow2(_)
Pow2(k) == IF k = 0 THEN 1 ELSE 2 * Pow2(k - 1)

\* Objects of a slot that holds a float, a str or None (a share's percentage,
\* a spreadsheet cell). Dy(n, k) is the double n / 2^k, with n odd or k = 0.
RECURSIVE Dy(_, _)
Dy(n, k) ==
  IF k > 0 /\ n % 2 = 0 THEN Dy(n \div 2, k - 1)
  ELSE [kind |-> "float", n |-> n, k |-> k]

\* a + b for doubles of the model: the sum is exact
add_exact(a, b) ==
  IF a.k >= b.k THEN Dy(a.n + b.n * Pow2(a.k - b.k), a.k)
  ELSE Dy(a.n * Pow2(b.k - a.k) + b.n, b.k)

PyStr(s) == [kind |-> "str", s |-> s]

PyNone == [kind |-> "None"]

IsDigit(c) == c \in {"0","1","2","3","4","5","6","7","8","9"}

DigitValue(c) ==
  CASE c = "0" -> 0 [] c = "1" -> 1 [] c = "2" -> 2 [] c = "3" -> 3
    [] c = "4" -> 4 [] c = "5" -> 5 [] c = "6" -> 6 [] c = "7" -> 7
    [] c = "8" -> 8 [] c = "9" -> 9

RECURSIVE DecimalValue(_)
DecimalValue(s) ==
  IF s = <<>> THEN 0
  ELSE 10 * DecimalValue(SubSeq(s, 1, Len(s) - 1)) + DigitValue(s[Len(s)])

\* float(x): a float is returned as it is, None raises TypeError, a str of
\* decimal digits (surrounding blanks allowed) is its integer value and any
\* other str of the catalogues below raises ValueError.
float(x) ==
  IF x.kind = "None" THEN [exc |-> "TypeError", val |-> Dy(0, 0)]
  ELSE IF x.kind = "float" THEN [exc |-> "none", val |-> x]
  ELSE IF strip(x.s) # <<>> /\ \A i \in DOMAIN strip(x.s) : IsDigit(strip(x.s)[i])
       THEN [exc |-> "none", val |-> Dy(DecimalValue(strip(x.s)), 0)]
       ELSE [exc |-> "ValueError", val |-> Dy(0, 0)]

\* round(x, 2) of the double n / 2^k: the exact value rounded to the nearest
\* hundredth, a tie going to the even one. The result is given as its number
\* of hundredths, which identifies the returned double.
round2(x) ==
  LET num == 100 * x.n
      den == Pow2(x.k)
      q   == num \div den
      r   == num % den
  IN  IF 2 * r > den THEN q + 1
      ELSE IF 2 * r = den THEN q + (q % 2)
      ELSE q

----------------------------------------------------------------------------
(* Double-precision arithmetic of the payment amount.  A computed double   *)
(* is Zero or [hi, lo, exp]: the mantissa, whose leading bit is 1, as its   *)
(* upper and its lower half, and the exponent of the leading bit.  Results  *)
(* are rounded to the nearest double, a tie to the even mantissa, as IEEE   *)
(* 754 binary64 does; the values of the model are far from overflow and     *)
(* underflow, and the operands n / 2^k have n below 2^16.                   *)

\* Bits of a binary64 mantissa
MantissaBits == 53

Zero == [hi |-> 0, lo |-> 0, exp |-> 0]

\* The bits of the natural number n, the leading 1 first
RECURSIVE BitsOf(_)
BitsOf(n) == IF n = 0 THEN <<>> ELSE Append(BitsOf(n \div 2), n % 2)

\* The number whose bits are given
RECURSIVE ValueOf(_)
ValueOf(bits) ==
  IF bits = <<>> THEN 0
  ELSE 2 * ValueOf(SubSeq(bits, 1, Len(bits) - 1)) + bits[Len(bits)]

\* The last width bits of n
RECURSIVE LowBits(_, _)
LowBits(n, width) ==
  IF width = 0 THEN <<>> ELSE Append(LowBits(n \div 2, width - 1), n % 2)

LoWidth == MantissaBits \div 2

\* The arithmetic works on limbs of a quarter of the mantissa
LimbBits == MantissaBits \div 4

Limb == Pow2(LimbBits)

\* The double nearest to 1.b2b3... * 2^exp, where bits holds at least
\* MantissaBits + 1 bits and sticky says that a 1 follows them
RoundToDouble(bits, sticky, exp) ==
  LET hi    == ValueOf(SubSeq(bits, 1, MantissaBits - LoWidth))
      lo    == ValueOf(SubSeq(bits, MantissaBits - LoWidth + 1, MantissaBits))
      guard == bits[MantissaBits + 1]
      rest  == \/ sticky
               \/ \E i \in (MantissaBits + 2)..Len(bits) : bits[i] = 1
      up    == guard = 1 /\ (rest \/ lo % 2 = 1)
  IN  IF ~up THEN [hi |-> hi, lo |-> lo, exp |-> exp]
      ELSE IF lo + 1 < Pow2(LoWidth) THEN [hi |-> hi, lo |-> lo + 1, exp |-> exp]
      ELSE IF hi + 1 < Pow2(MantissaBits - LoWidth)
      THEN [hi |-> hi + 1, lo |-> 0, exp |-> exp]
      ELSE [hi |-> Pow2(MantissaBits - LoWidth - 1), lo |-> 0, exp |-> exp + 1]

\* One limb of the quotient of rem / b and the remainder left, for rem < b
DivStep(rem, b) ==
  [digit |-> (rem * Limb) \div b, rem |-> (rem * Limb) % b]

\* The least i with a * 2^i >= b
RECURSIVE ShiftUp(_, _)
ShiftUp(a, b) == IF a >= b THEN 0 ELSE 1 + ShiftUp(2 * a, b)

\* The greatest j with b * 2^j <= a, for a >= b
RECURSIVE ShiftDown(_, _)
ShiftDown(a, b) == IF 2 * b > a THEN 0 ELSE 1 + ShiftDown(a, 2 * b)

\* x / 100.0 for the double x = n / 2^k: with b <= a < 2b and a / b the
\* quotient scaled by a power of 2, the leading 1, four limbs of the
\* quotient's fraction and the bit after them, then the rounding
div100(x) ==
  IF x.n = 0 THEN Zero
  ELSE LET up   == ShiftUp(x.n, 100)
           down == ShiftDown(x.n * Pow2(up), 100)
           a    == x.n * Pow2(up)
           b    == 100 * Pow2(down)
           s1   == DivStep(a - b, b)
           s2   == DivStep(s1.rem, b)
           s3   == DivStep(s2.rem, b)
           s4   == DivStep(s3.rem, b)
           g    == [digit |-> (2 * s4.rem) \div b, rem |-> (2 * s4.rem) % b]
       IN  RoundToDouble(<<1>> \o LowBits(s1.digit, LimbBits)
                              \o LowBits(s2.digit, LimbBits)
                              \o LowBits(s3.digit, LimbBits)
                              \o LowBits(s4.digit, LimbBits) \o <<g.digit>>,
                         g.rem # 0, down - up - x.k)

\* t * d for the double t = n / 2^k and a computed double d: the mantissa of
\* d times n by the school method on limbs, then the rounding
mul(t, d) ==
  IF t.n = 0 \/ d = Zero THEN Zero
  ELSE LET p0 == t.n * (d.lo % Limb)
           p1 == t.n * (d.lo \div Limb) + p0 \div Limb
           p2 == t.n * (d.hi % Limb) + p1 \div Limb
           p3 == t.n * (d.hi \div Limb) + p2 \div Limb
           product == BitsOf(p3) \o LowBits(p2 % Limb, LimbBits)
                                 \o LowBits(p1 % Limb, LimbBits)
                                 \o LowBits(p0 % Limb, LimbBits)
       IN  RoundToDouble(product \o <<0>>, FALSE,
                         d.exp + (Len(product) - MantissaBits) - t.k)

\* t * p for the doubles t and p of the model: the product is exact
mul_exact(t, p) == Dy(t.n * p.n, t.k + p.k)

RECURSIVE Fold(_, _, _)
Fold(Op(_, _), acc, seq) ==
  IF seq = <<>> THEN acc ELSE Fold(Op, Op(acc, seq[1]), Tail(seq))

----------------------------------------------------------------------------
(* Data model: contract_parser.py *)

Party(name, role) == [name |-> name, role |-> role]

Work(title, work_type) == [title |-> title, work_type |-> work_type]

RoyaltyShare(party_name, royalty_type, percentage) ==
  [party_name |-> party_name, royalty_type |-> royalty_type,
   percentage |-> percentage]

ContractData(parties, works, royalty_shares, contract_summary) ==
  [parties |-> parties, works |-> works, royalty_shares |-> royalty_shares,
   contract_summary |-> contract_summary]

----------------------------------------------------------------------------
(* Contract Merger: RoyaltyCalculator.merge_contracts *)

\* royalty_calculator.py imports openpyxl, typing, dataclasses, os, openai,
\* dotenv, streamlit and the contract parser's classes: the name re is bound
\* nowhere in the module.
re_is_imported == FALSE

\* re.sub(r"\(.*?\)", "", name): every "(" up to the nearest ")" after it is
\* deleted, scanning left to right; "." does not match a newline.
RECURSIVE re_sub_annotation(_)
re_sub_annotation(s) ==
  IF s = <<>> THEN <<>>
  ELSE IF s[1] = "(" /\ \E j \in 2..Len(s) : s[j] = ")"
  THEN LET j == CHOOSE j \in 2..Len(s) :
                  s[j] = ")" /\ \A h \in 2..(j - 1) : s[h] # ")"
       IN  IF \E h \in 2..(j - 1) : s[h] = "\n"
           THEN <<s[1]>> \o re_sub_annotation(Tail(s))
           ELSE re_sub_annotation(SubSeq(s, j + 1, Len(s)))
  ELSE <<s[1]>> \o re_sub_annotation(Tail(s))

\* The expression of line 248, for a name and a bound re
clean(name) == lower(strip(re_sub_annotation(name)))

\* normalize_name(name): "" for an empty or None name; for any other name
\* line 248 looks up the global re, which raises NameError.
normalize_name(name) ==
  IF ~Truthy(name) THEN [exc |-> "none", val |-> <<>>]
  ELSE IF ~re_is_imported THEN [exc |-> "NameError", val |-> <<>>]
  ELSE [exc |-> "none", val |-> clean(name)]

\* x or ""
or_empty(x) == IF Truthy(x) THEN x ELSE <<>>

\* The locals of merge_contracts, with the exception that ended the loop
MergeLocals ==
  [exc |-> "none", merged_parties |-> <<>>, merged_works |-> <<>>,
   merged_royalty_shares |-> <<>>, summaries |-> <<>>,
   seen_parties |-> {}, seen_works |-> {}, seen_shares |-> {}]

\* Lines 259-263, one party
merge_party(acc, p) ==
  IF acc.exc # "none" THEN acc
  ELSE LET norm_name == normalize_name(p.name)
       IN  IF norm_name.exc # "none" THEN [acc EXCEPT !.exc = norm_name.exc]
           ELSE IF Truthy(norm_name.val) /\ norm_name.val \notin acc.seen_parties
           THEN [acc EXCEPT !.merged_parties = Append(@, p),
                            !.seen_parties = @ \cup {norm_name.val}]
           ELSE acc

\* merge_work without the test on seen_works
merge_work_unchecked(acc, w) ==
  IF acc.exc # "none" THEN acc
  ELSE LET norm_title == lower(strip(or_empty(w.title)))
       IN  IF Truthy(norm_title)
           THEN [acc EXCEPT !.merged_works = Append(@, w),
                            !.seen_works = @ \cup {norm_title}]
           ELSE acc

\* Lines 266-270, one work
merge_work(acc, w) ==
  IF acc.exc # "none" THEN acc
  ELSE LET norm_title == lower(strip(or_empty(w.title)))
       IN  IF Truthy(norm_title) /\ norm_title \notin acc.seen_works
           THEN [acc EXCEPT !.merged_works = Append(@, w),
                            !.seen_works = @ \cup {norm_title}]
           ELSE acc

\* share_key without the percentage
share_key_without_percentage(r) ==
  LET party == normalize_name(r.party_name)
      pct   == float(r.percentage)
  IN  IF party.exc # "none" THEN [exc |-> party.exc, val |-> <<>>]
      ELSE IF r.royalty_type = None THEN [exc |-> "AttributeError", val |-> <<>>]
      ELSE IF pct.exc # "none" THEN [exc |-> pct.exc, val |-> <<>>]
      ELSE [exc |-> "none", val |-> <<party.val, strip(lower(r.royalty_type))>>]

\* Lines 274-278: the key of a share, its three parts evaluated in order
share_key(r) ==
  LET party == normalize_name(r.party_name)
      pct   == float(r.percentage)
  IN  IF party.exc # "none" THEN [exc |-> party.exc, val |-> <<>>]
      ELSE IF r.royalty_type = None THEN [exc |-> "AttributeError", val |-> <<>>]
      ELSE IF pct.exc # "none" THEN [exc |-> pct.exc, val |-> <<>>]
      ELSE [exc |-> "none",
            val |-> <<party.val, strip(lower(r.royalty_type)), round2(pct.val)>>]

\* Lines 273-281, one royalty share
merge_royalty_share(acc, r) ==
  IF acc.exc # "none" THEN acc
  ELSE LET key == share_key(r)
       IN  IF key.exc # "none" THEN [acc EXCEPT !.exc = key.exc]
           ELSE IF key.val \notin acc.seen_shares
           THEN [acc EXCEPT !.merged_royalty_shares = Append(@, r),
                            !.seen_shares = @ \cup {key.val}]
           ELSE acc

\* Lines 255-281, one contract
merge_contract(acc, contract) ==
  IF acc.exc # "none" THEN acc
  ELSE LET a0 == [acc EXCEPT
                    !.summaries = Append(@, or_empty(contract.contract_summary))]
           a1 == Fold(merge_party, a0, contract.parties)
           a2 == Fold(merge_work, a1, contract.works)
       IN  Fold(merge_royalty_share, a2, contract.royalty_shares)

\* "\n".join(parts)
RECURSIVE join_lines(_)
join_lines(parts) ==
  IF parts = <<>> THEN <<>>
  ELSE IF Len(parts) = 1 THEN parts[1]
  ELSE parts[1] \o <<"\n">> \o join_lines(Tail(parts))

\* Line 283
merged_summary(summaries) ==
  join_lines(SelectSeq(summaries, LAMBDA s : Truthy(strip(s))))

\* merge_contracts(contracts): the ContractData returned, or the exception
merge_contracts(cs) ==
  LET acc == Fold(merge_contract, MergeLocals, cs)
  IN  IF acc.exc # "none" THEN [exc |-> acc.exc, value |-> None]
      ELSE [exc |-> "none",
            value |-> ContractData(acc.merged_parties, acc.merged_works,
                                   acc.merged_royalty_shares,
                                   merged_summary(acc.summaries))]

----------------------------------------------------------------------------
(* Inputs of the merger *)

MaxContracts == 2

\* Names, titles, royalty types and summaries
s_Al      == <<"A","l">>
s_al_sp   == <<"a","l"," ">>
s_Al_note == <<"A","l"," ","(","p",")">>
s_Hi      == <<"H","i">>
s_sp_hi   == <<" ","h","i">>
s_Yo      == <<"Y","o">>
s_YO_sp   == <<"Y","O"," ">>
s_streaming     == <<"s","t","r","e","a","m","i","n","g">>
s_sp_Streaming  == <<" ","S","t","r","e","a","m","i","n","g">>
s_streaming_net == <<"s","t","r","e","a","m","i","n","g"," ","(","n",")">>
s_publishing    == <<"p","u","b","l","i","s","h","i","n","g">>
s_artist   == <<"a","r","t","i","s","t">>
s_producer == <<"p","r","o","d","u","c","e","r">>
s_Song     == <<"S","o","n","g">>
s_Album    == <<"A","l","b","u","m">>

\* The ContractData records handed to merge_contracts: records without
\* content, records whose fields are empty or None, records that restate
\* works and shares of one another in another spelling, records that name a
\* party, and records with a malformed royalty type or percentage.
c_empty == ContractData(<<>>, <<>>, <<>>, None)

c_blank ==
  ContractData(<<Party(None, s_artist), Party(<<>>, s_producer)>>,
               <<Work(None, s_Song), Work(<<>>, s_Album)>>, <<>>, <<>>)

c_hi ==
  ContractData(<<>>, <<Work(s_Hi, s_Song)>>,
               <<RoyaltyShare(<<>>, s_streaming, Dy(50, 0))>>, <<"S">>)

c_hi_again ==
  ContractData(<<Party(<<>>, s_artist)>>,
               <<Work(s_sp_hi, s_Album), Work(s_Yo, s_Song)>>,
               <<RoyaltyShare(None, s_sp_Streaming, Dy(12801, 8)),
                 RoyaltyShare(<<>>, s_publishing, Dy(50, 0))>>, <<" ">>)

c_yo ==
  ContractData(<<>>, <<Work(s_Yo, s_Song), Work(s_YO_sp, s_Album)>>,
               <<RoyaltyShare(<<>>, s_streaming, Dy(6401, 7)),
                 RoyaltyShare(<<>>, s_streaming_net, Dy(50, 0)),
                 RoyaltyShare(<<>>, s_streaming, PyStr(<<"5","0">>))>>, <<"T">>)

c_al ==
  ContractData(<<Party(s_Al, s_artist)>>, <<Work(s_Hi, s_Song)>>,
               <<RoyaltyShare(s_Al, s_streaming, Dy(50, 0))>>, <<"S">>)

c_al_again ==
  ContractData(<<Party(s_al_sp, s_producer), Party(s_Al_note, s_artist)>>, <<>>,
               <<RoyaltyShare(s_Al_note, s_sp_Streaming, Dy(50, 0))>>, None)

c_no_type ==
  ContractData(<<>>, <<Work(s_Hi, s_Song)>>,
               <<RoyaltyShare(<<>>, None, Dy(50, 0))>>, None)

c_bad_percentage ==
  ContractData(<<>>, <<>>,
               <<RoyaltyShare(<<>>, s_streaming, PyStr(<<"n","/","a">>))>>, None)

c_no_percentage ==
  ContractData(<<>>, <<>>, <<RoyaltyShare(<<>>, s_streaming, PyNone)>>, None)

ContractInputs ==
  {c_empty, c_blank, c_hi, c_hi_again, c_yo, c_al, c_al_again, c_no_type,
   c_bad_percentage, c_no_percentage}

----------------------------------------------------------------------------
(* One run of the merger: the caller gathers the records, then calls      *)
(* merge_contracts on them once.                                           *)

NotMerged == [called |-> FALSE, input |-> <<>>, exc |-> "none", value |-> None]

NoCall == [entry |-> "none"]

NoOutcome == [exc |-> "none", returned |-> FALSE, payments |-> <<>>]

Init ==
  /\ contracts = <<>>
  /\ merged = NotMerged
  /\ call = NoCall
  /\ outcome = NoOutcome

\* The caller appends one more record to the list it will merge
AddContract ==
  /\ ~merged.called
  /\ Len(contracts) < MaxContracts
  /\ \E c \in ContractInputs : contracts' = Append(contracts, c)
  /\ UNCHANGED <<merged, call, outcome>>

\* merge_contracts(contracts)
MergeContracts ==
  /\ ~merged.called
  /\ LET res == merge_contracts(contracts)
     IN  merged' = [called |-> TRUE, input |-> contracts,
                    exc |-> res.exc, value |-> res.value]
  /\ UNCHANGED <<contracts, call, outcome>>

\* The merged record is dropped and another run starts
NewMergeRun ==
  /\ merged.called
  /\ contracts' = <<>>
  /\ merged' = NotMerged
  /\ UNCHANGED <<call, outcome>>

NextMerge == AddContract \/ MergeContracts \/ NewMergeRun

SpecMerge == Init /\ [][NextMerge]_vars

----------------------------------------------------------------------------
(* Vocabulary of the properties of the merger *)

\* normalize(text) of the design: "" for an empty or null text, else the text
\* without its parenthesized annotations, trimmed and lower-cased
normalize(text) == IF Truthy(text) THEN clean(text) ELSE <<>>

PartyKey(p) == normalize(p.name)

WorkKey(w) == lower(strip(or_empty(w.title)))

\* The key merge_contracts builds for a share it kept (line 274-278)
ShareKey(r) ==
  <<normalize(r.party_name), strip(lower(r.royalty_type)),
    round2(float(r.percentage).val)>>

\* The key of the design: the royalty type goes through normalize as well
DesignShareKey(r) ==
  <<normalize(r.party_name), normalize(r.royalty_type),
    round2(float(r.percentage).val)>>

Keys(Key(_), seq) == {Key(seq[i]) : i \in DOMAIN seq}

NoTwoWithSameKey(Key(_), seq) ==
  \A i, j \in DOMAIN seq : i # j => Key(seq[i]) # Key(seq[j])

RECURSIVE Concat(_)
Concat(seqs) == IF seqs = <<>> THEN <<>> ELSE seqs[1] \o Concat(Tail(seqs))

\* All parties, works and shares of the records, in input order
AllParties(cs) == Concat([i \in DOMAIN cs |-> cs[i].parties])

AllWorks(cs) == Concat([i \in DOMAIN cs |-> cs[i].works])

AllShares(cs) == Concat([i \in DOMAIN cs |-> cs[i].royalty_shares])

\* The items of seq that are the first with their key
RECURSIVE FirstUpTo(_, _, _)
FirstUpTo(Key(_), seq, n) ==
  IF n = 0 THEN <<>>
  ELSE LET rest == FirstUpTo(Key, seq, n - 1)
       IN  IF \E j \in 1..(n - 1) : Key(seq[j]) = Key(seq[n])
           THEN rest ELSE Append(rest, seq[n])

FirstOccurrences(Key(_), seq) == FirstUpTo(Key, seq, Len(seq))

\* Every name, title and royalty type is a str and every percentage converts
\* to a float
WellFormed(cs) ==
  /\ \A i \in DOMAIN AllParties(cs) : AllParties(cs)[i].name # None
  /\ \A i \in DOMAIN AllWorks(cs) : AllWorks(cs)[i].title # None
  /\ \A i \in DOMAIN AllShares(cs) :
       /\ AllShares(cs)[i].party_name # None
       /\ AllShares(cs)[i].royalty_type # None
       /\ float(AllShares(cs)[i].percentage).exc = "none"

MergeReturned == merged.called /\ merged.exc = "none"

----------------------------------------------------------------------------
(* Properties of the merger, checked under SpecMerge *)

C2_FirstOccurrenceKept ==
  merged.called /\ WellFormed(merged.input) =>
    /\ merged.exc = "none"
    /\ merged.value.parties =
         FirstOccurrences(PartyKey,
           SelectSeq(AllParties(merged.input), LAMBDA p : PartyKey(p) # <<>>))
    /\ merged.value.works =
         FirstOccurrences(WorkKey,
           SelectSeq(AllWorks(merged.input), LAMBDA w : WorkKey(w) # <<>>))
    /\ merged.value.royalty_shares =
         FirstOccurrences(ShareKey, AllShares(merged.input))

\* C3: merge_contracts never raises, whatever the fields of the records hold.
C3_MergeNeverRaises == merged.called => merged.exc = "none"

\* C4: merging a record with itself gives the same Parties, Works and
\* RoyaltyShares, in the same order, as merging it alone (and raises exactly
\* when merging it alone raises).
C4_MergeIdempotent ==
  merged.called /\ Len(merged.input) = 2 /\ merged.input[1] = merged.input[2] =>
    LET once == merge_contracts(<<merged.input[1]>>)
    IN  /\ merged.exc = once.exc
        /\ merged.exc = "none" =>
             /\ merged.value.parties = once.value.parties
             /\ merged.value.works = once.value.works
             /\ merged.value.royalty_shares = once.value.royalty_shares

\* A record with works and shares was merged with itself.
C4_Witness ==
  /\ MergeReturned
  /\ Len(merged.input) = 2 /\ merged.input[1] = merged.input[2]
  /\ Len(merged.value.works) > 1
  /\ Len(merged.value.royalty_shares) > 1

\* The records of cs in the order f gives
Permuted(cs, f) == [i \in DOMAIN cs |-> cs[f[i]]]

\* C5: every permutation of the input records gives the same sets of party
\* keys, work keys and share keys (and raises exactly when the input order
\* raises).
C5_MergeOrderIndependent ==
  merged.called =>
    \A f \in Permutations(DOMAIN merged.input) :
      LET other == merge_contracts(Permuted(merged.input, f))
      IN  /\ (other.exc = "none") <=> (merged.exc = "none")
          /\ merged.exc = "none" =>
               /\ Keys(PartyKey, other.value.parties)
                    = Keys(PartyKey, merged.value.parties)
               /\ Keys(WorkKey, other.value.works)
                    = Keys(WorkKey, merged.value.works)
               /\ Keys(ShareKey, other.value.royalty_shares)
                    = Keys(ShareKey, merged.value.royalty_shares)

\* Two records were merged whose other order keeps other items.
C5_Witness ==
  /\ MergeReturned
  /\ \E f \in Permutations(DOMAIN merged.input) :
       LET other == merge_contracts(Permuted(merged.input, f))
       IN  /\ other.value.works # merged.value.works
           /\ Keys(LAMBDA w : w, other.value.works)
                # Keys(LAMBDA w : w, merged.value.works)
           /\ other.value.royalty_shares # merged.value.royalty_shares

\* C6: RoyaltyShares are deduplicated on (normalize(party_name),
\* normalize(royalty_type), percentage rounded to 2 decimals): shares that
\* differ only in case, surrounding blanks or a parenthesized annotation of
\* the party name or royalty type, with percentages that round alike, merge
\* into the first of them, and all others are kept.
C6_SharesMergedOnDesignKey ==
  merged.called /\ WellFormed(merged.input) =>
    /\ merged.exc = "none"
    /\ merged.value.royalty_shares =
         FirstOccurrences(DesignShareKey, AllShares(merged.input))

----------------------------------------------------------------------------
(* Statement Ingestor: RoyaltyCalculator.read_royalty_statement.  A sheet  *)
(* is [readable, header, rows]: whether openpyxl loads the workbook, the   *)
(* cells of row 1 and the cells of the rows after it, every row as wide as *)
(* the sheet.  Header and title cells of the model's sheets are text or    *)
(* empty.                                                                  *)

Sheet(header, rows) == [readable |-> TRUE, header |-> header, rows |-> rows]

\* bool(cell.value)
CellTruthy(cell) ==
  CASE cell.kind = "None"  -> FALSE
    [] cell.kind = "str"   -> cell.s # <<>>
    [] cell.kind = "float" -> cell.n # 0

\* Lines 74-77: the headers of the cells of row 1 that hold a value
extract_headers(header) ==
  LET kept == SelectSeq(header, CellTruthy)
  IN  [i \in DOMAIN kept |-> lower(strip(kept[i].s))]

s_title         == <<"t","i","t","l","e">>
s_track         == <<"t","r","a","c","k">>
s_release_title == <<"r","e","l","e","a","s","e"," ","t","i","t","l","e">>
s_song_title    == <<"s","o","n","g"," ","t","i","t","l","e">>
s_track_title   == <<"t","r","a","c","k"," ","t","i","t","l","e">>
s_song_name     == <<"s","o","n","g"," ","n","a","m","e">>
s_track_name    == <<"t","r","a","c","k"," ","n","a","m","e">>
s_release_name  == <<"r","e","l","e","a","s","e"," ","n","a","m","e">>

\* Lines 120-121
title_variations ==
  <<s_release_title, s_title, s_song_title, s_track_title, s_song_name,
    s_track_name, s_release_name, s_track>>

s_net_payable   == <<"n","e","t"," ","p","a","y","a","b","l","e">>
s_net_payment   == <<"n","e","t"," ","p","a","y","m","e","n","t">>
s_total_payable == <<"t","o","t","a","l"," ","p","a","y","a","b","l","e">>
s_net_revenue   == <<"n","e","t"," ","r","e","v","e","n","u","e">>
s_net_amount    == <<"n","e","t"," ","a","m","o","u","n","t">>

\* Lines 133-139
priority_variations ==
  <<s_net_payable, s_net_payment, s_total_payable, s_net_revenue, s_net_amount>>

s_payable   == <<"p","a","y","a","b","l","e">>
s_amount    == <<"a","m","o","u","n","t">>
s_earnings  == <<"e","a","r","n","i","n","g","s">>
s_payment   == <<"p","a","y","m","e","n","t">>
s_withheld  == <<"w","i","t","h","h","e","l","d">>
s_deduction == <<"d","e","d","u","c","t","i","o","n">>
s_fee       == <<"f","e","e">>

\* Line 149
general_variations == <<s_payable, s_amount, s_earnings, s_payment>>

\* The first item of seq that satisfies Test, for a seq that has one
First(Test(_), seq) ==
  seq[CHOOSE i \in DOMAIN seq :
        Test(seq[i]) /\ \A j \in 1..(i - 1) : ~Test(seq[j])]

ContainsAny(variations, header) ==
  \E v \in DOMAIN variations : Contains(variations[v], header)

\* A detection that goes through the synonyms first: it takes the first
\* header containing the first synonym that some header contains
_find_title_column_by_synonym(headers) ==
  LET InSome(v) == \E i \in DOMAIN headers : Contains(v, headers[i])
  IN  IF \E v \in DOMAIN title_variations : InSome(title_variations[v])
      THEN LET var == First(InSome, title_variations)
               Hit(h) == Contains(var, h)
           IN  [exc |-> "none", val |-> First(Hit, headers)]
      ELSE [exc |-> "ValueError: Could not auto-detect title column",
            val |-> None]

\* _find_title_column(headers)
_find_title_column(headers) ==
  LET Hit(h) == ContainsAny(title_variations, h)
  IN  IF \E i \in DOMAIN headers : Hit(headers[i])
      THEN [exc |-> "none", val |-> First(Hit, headers)]
      ELSE [exc |-> "ValueError: Could not auto-detect title column",
            val |-> None]

\* A detection in one pass, which takes the first header that either list
\* accepts
_find_payable_column_one_pass(headers) ==
  LET Either(h) == \/ ContainsAny(priority_variations, h)
                   \/ /\ ContainsAny(general_variations, h)
                      /\ ~Contains(s_withheld, h)
                      /\ ~Contains(s_deduction, h)
                      /\ ~Contains(s_fee, h)
  IN  IF \E i \in DOMAIN headers : Either(headers[i])
      THEN [exc |-> "none", val |-> First(Either, headers)]
      ELSE [exc |-> "ValueError: Could not auto-detect payable column",
            val |-> None]

\* _find_payable_column(headers)
_find_payable_column(headers) ==
  LET Priority(h) == ContainsAny(priority_variations, h)
      General(h)  == /\ ContainsAny(general_variations, h)
                     /\ ~Contains(s_withheld, h)
                     /\ ~Contains(s_deduction, h)
                     /\ ~Contains(s_fee, h)
  IN  IF \E i \in DOMAIN headers : Priority(headers[i])
      THEN [exc |-> "none", val |-> First(Priority, headers)]
      ELSE IF \E i \in DOMAIN headers : General(headers[i])
      THEN [exc |-> "none", val |-> First(General, headers)]
      ELSE [exc |-> "ValueError: Could not auto-detect payable column",
            val |-> None]

\* headers.index(column): the first position of column, 0 when it is absent
\* (list.index raises ValueError then)
index(headers, column) ==
  IF \E i \in DOMAIN headers : headers[i] = column
  THEN CHOOSE i \in DOMAIN headers :
         headers[i] = column /\ \A j \in 1..(i - 1) : headers[j] # column
  ELSE 0

\* song_totals is a dict: its items in insertion order
dict_has(d, key) == \E i \in DOMAIN d : d[i].title = key

\* Line 106: song_totals[title] = song_totals.get(title, 0.0) + amount
dict_add(d, title, amount) ==
  IF dict_has(d, title)
  THEN [i \in DOMAIN d |->
          IF d[i].title = title
          THEN [title |-> title, amount |-> add_exact(d[i].amount, amount)]
          ELSE d[i]]
  ELSE Append(d, [title |-> title, amount |-> add_exact(Dy(0, 0), amount)])

\* Lines 101-108, one row; the positions count from 1 here
read_row(song_totals, row, title_idx, payable_idx) ==
  IF CellTruthy(row[title_idx]) /\ row[payable_idx].kind # "None"
  THEN LET title  == strip(row[title_idx].s)
           amount == float(row[payable_idx])
       IN  IF amount.exc = "none" THEN dict_add(song_totals, title, amount.val)
           ELSE song_totals
  ELSE song_totals

RECURSIVE read_rows(_, _, _, _)
read_rows(song_totals, rows, title_idx, payable_idx) ==
  IF rows = <<>> THEN song_totals
  ELSE read_rows(read_row(song_totals, rows[1], title_idx, payable_idx),
                 Tail(rows), title_idx, payable_idx)

\* Line 116: whatever the body raises is raised again as an Exception whose
\* text ends with the text of the cause. headers is the header list when the
\* text of the cause holds it, else None.
StatementError(cause, headers) ==
  [exc |-> "Exception: Error reading royalty statement", cause |-> cause,
   headers |-> headers, val |-> <<>>]

\* An ingestion that looks a given column name up as the caller wrote it
read_royalty_statement_as_written(sheet, title_column, payable_column) ==
  IF ~sheet.readable THEN StatementError("load_workbook", None)
  ELSE
    LET headers == extract_headers(sheet.header)
        title   == IF title_column = None THEN _find_title_column(headers)
                   ELSE [exc |-> "none", val |-> title_column]
        payable == IF payable_column = None THEN _find_payable_column(headers)
                   ELSE [exc |-> "none", val |-> payable_column]
    IN  IF title.exc # "none" THEN StatementError(title.exc, None)
        ELSE IF payable.exc # "none" THEN StatementError(payable.exc, None)
        ELSE IF index(headers, title.val) = 0 \/ index(headers, payable.val) = 0
        THEN StatementError("ValueError: Could not find required columns",
                            headers)
        ELSE [exc |-> "none", cause |-> "none", headers |-> None,
              val |-> read_rows(<<>>, sheet.rows, index(headers, title.val),
                                index(headers, payable.val))]

\* read_royalty_statement(excel_path, title_column, payable_column)
read_royalty_statement(sheet, title_column, payable_column) ==
  IF ~sheet.readable THEN StatementError("load_workbook", None)
  ELSE
    LET headers == extract_headers(sheet.header)
        title   == IF title_column = None THEN _find_title_column(headers)
                   ELSE [exc |-> "none", val |-> lower(title_column)]
        payable == IF payable_column = None THEN _find_payable_column(headers)
                   ELSE [exc |-> "none", val |-> lower(payable_column)]
    IN  IF title.exc # "none" THEN StatementError(title.exc, None)
        ELSE IF payable.exc # "none" THEN StatementError(payable.exc, None)
        ELSE IF index(headers, title.val) = 0 \/ index(headers, payable.val) = 0
        THEN StatementError("ValueError: Could not find required columns",
                            headers)
        ELSE [exc |-> "none", cause |-> "none", headers |-> None,
              val |-> read_rows(<<>>, sheet.rows, index(headers, title.val),
                                index(headers, payable.val))]

----------------------------------------------------------------------------
(* Song Matcher: RoyaltyCalculator._find_matching_song *)

NotFound == [title |-> None, amount |-> Dy(0, 0)]

\* A matcher with one pass only, on substrings
_find_matching_song_one_pass(song_title, song_totals) ==
  LET song_title_lower == strip(lower(song_title))
      Partial(item) == \/ Contains(song_title_lower, lower(item.title))
                       \/ Contains(lower(item.title), song_title_lower)
  IN  IF \E i \in DOMAIN song_totals : Partial(song_totals[i])
      THEN First(Partial, song_totals)
      ELSE NotFound

\* A matcher whose second pass looks for the work title in the statement
\* titles only
_find_matching_song_one_way(song_title, song_totals) ==
  LET song_title_lower == strip(lower(song_title))
      Exact(item)   == strip(lower(item.title)) = song_title_lower
      Partial(item) == Contains(song_title_lower, lower(item.title))
  IN  IF \E i \in DOMAIN song_totals : Exact(song_totals[i])
      THEN First(Exact, song_totals)
      ELSE IF \E i \in DOMAIN song_totals : Partial(song_totals[i])
      THEN First(Partial, song_totals)
      ELSE NotFound

\* _find_matching_song(song_title, song_totals)
_find_matching_song(song_title, song_totals) ==
  LET song_title_lower == strip(lower(song_title))
      Exact(item)   == strip(lower(item.title)) = song_title_lower
      Partial(item) == \/ Contains(song_title_lower, lower(item.title))
                       \/ Contains(lower(item.title), song_title_lower)
  IN  IF \E i \in DOMAIN song_totals : Exact(song_totals[i])
      THEN First(Exact, song_totals)
      ELSE IF \E i \in DOMAIN song_totals : Partial(song_totals[i])
      THEN First(Partial, song_totals)
      ELSE NotFound

----------------------------------------------------------------------------
(* Payment Calculator *)

s_Unknown == <<"U","n","k","n","o","w","n">>

RoyaltyPayment(song_title, party_name, role, royalty_type, percentage, total_royalty, amount_to_pay) ==
  [song_title |-> song_title, party_name |-> party_name, role |-> role,
   royalty_type |-> royalty_type, percentage |-> percentage,
   total_royalty |-> total_royalty, amount_to_pay |-> amount_to_pay]

\* A calculator without the filter on the royalty type: every share is paid
shares_unfiltered(contract_data) == contract_data.royalty_shares

\* Lines 191-194 and 331-334
streaming_shares(contract_data) ==
  SelectSeq(contract_data.royalty_shares,
            LAMBDA share : Contains(s_streaming, lower(share.royalty_type)))

\* A calculator that multiplies first: (total_royalty * percentage) / 100.0
amount_to_pay_product_first(total_royalty, percentage) ==
  div100(mul_exact(total_royalty, percentage))

\* Lines 206 and 352: total_royalty * (share.percentage / 100.0)
amount_to_pay(total_royalty, percentage) == mul(total_royalty, div100(percentage))

\* A calculator that looks the party up under normalized names
role_of_normalized(contract_data, share) ==
  LET Same(p) == clean(p.name) = clean(share.party_name)
  IN  IF \E i \in DOMAIN contract_data.parties : Same(contract_data.parties[i])
      THEN First(Same, contract_data.parties).role
      ELSE s_Unknown

\* Lines 209-211 and 355-359
role_of(contract_data, share) ==
  LET Same(p) == lower(p.name) = lower(share.party_name)
  IN  IF \E i \in DOMAIN contract_data.parties : Same(contract_data.parties[i])
      THEN First(Same, contract_data.parties).role
      ELSE s_Unknown

\* Lines 205-222 and 351-370: the payments of one matched work
payments_of_work(contract_data, work, total_royalty) ==
  LET shares == streaming_shares(contract_data)
  IN  [i \in DOMAIN shares |->
         RoyaltyPayment(work.title, shares[i].party_name,
                        role_of(contract_data, shares[i]),
                        shares[i].royalty_type, shares[i].percentage,
                        total_royalty,
                        amount_to_pay(total_royalty, shares[i].percentage))]

\* A calculator whose loop ends at the first work without a match
RECURSIVE payments_until_unmatched(_, _, _)
payments_until_unmatched(contract_data, works, song_totals) ==
  IF works = <<>> THEN <<>>
  ELSE LET found == _find_matching_song(works[1].title, song_totals)
       IN  IF Truthy(found.title)
           THEN payments_of_work(contract_data, works[1], found.amount)
                \o payments_until_unmatched(contract_data, Tail(works),
                                            song_totals)
           ELSE <<>>

\* Lines 197-226 and 344-375: the loop over the works
RECURSIVE payments_of_works(_, _, _)
payments_of_works(contract_data, works, song_totals) ==
  IF works = <<>> THEN <<>>
  ELSE LET found == _find_matching_song(works[1].title, song_totals)
       IN  (IF Truthy(found.title)
            THEN payments_of_work(contract_data, works[1], found.amount)
            ELSE <<>>)
           \o payments_of_works(contract_data, Tail(works), song_totals)

Raised(exc) == [exc |-> exc, returned |-> FALSE, payments |-> <<>>]

Returned(payments) == [exc |-> "none", returned |-> TRUE, payments |-> payments]

\* calculate_payments_from_data(contract_data, statement_path, title_column,
\* payable_column)
calculate_payments_from_data(contract_data, sheet, title_column, payable_column) ==
  IF contract_data.works = <<>>
  THEN Raised("ValueError: No works found in the provided contract data")
  ELSE IF contract_data.royalty_shares = <<>>
  THEN Raised("ValueError: No royalty share data found in the provided contract data")
  ELSE LET statement == read_royalty_statement(sheet, title_column, payable_column)
       IN  IF statement.exc # "none" THEN Raised(statement.exc)
           ELSE IF statement.val = <<>>
           THEN Raised("ValueError: No songs found in the royalty statement")
           ELSE IF streaming_shares(contract_data) = <<>> THEN Returned(<<>>)
           ELSE Returned(payments_of_works(contract_data, contract_data.works,
                                           statement.val))

\* A single-contract path whose loop ends at the first work without a match
calculate_payments_until_unmatched(parsed, sheet, title_column, payable_column) ==
  IF parsed.exc # "none" THEN Raised(parsed.exc)
  ELSE LET statement == read_royalty_statement(sheet, title_column, payable_column)
       IN  IF statement.exc # "none" THEN Raised(statement.exc)
           ELSE Returned(payments_until_unmatched(parsed.value,
                                                  parsed.value.works,
                                                  statement.val))

\* calculate_payments(contract_path, statement_path, title_column,
\* payable_column); parsed is what parse_contract does on contract_path: it
\* returns a ContractData or raises.
calculate_payments(parsed, sheet, title_column, payable_column) ==
  IF parsed.exc # "none" THEN Raised(parsed.exc)
  ELSE LET statement == read_royalty_statement(sheet, title_column, payable_column)
       IN  IF statement.exc # "none" THEN Raised(statement.exc)
           ELSE Returned(payments_of_works(parsed.value, parsed.value.works,
                                           statement.val))

\* calculate_payments_from_contracts(contract_paths, statement_path); parses
\* holds what parse_contract does on each path, in the order of the paths.
calculate_payments_from_contracts(parses, sheet) ==
  LET all_contracts_data ==
        LET ok == SelectSeq(parses, LAMBDA parsed : parsed.exc = "none")
        IN  [i \in DOMAIN ok |-> ok[i].value]
      merged_data == merge_contracts(all_contracts_data)
  IN  IF all_contracts_data = <<>>
      THEN Raised("ValueError: No valid contracts could be parsed")
      ELSE IF merged_data.exc # "none" THEN Raised(merged_data.exc)
      ELSE calculate_payments_from_data(merged_data.value, sheet, None, None)

----------------------------------------------------------------------------
(* Inputs of the payment calculators *)

MaxWorks == 2

MaxShares == 2

SeqsUpTo(S, n) == UNION {[1..m -> S] : m \in 0..n}

s_Bo  == <<"B","o">>
s_AL  == <<"A","L">>
s_Zed == <<"Z","e","d">>
s_yo_yo == <<"y","o"," ","y","o">>
s_Title == <<"T","i","t","l","e">>
s_Net_Payable == <<"N","e","t"," ","P","a","y","a","b","l","e">>
s_Song_header == <<"S","o","n","g">>
s_Fee == <<"F","e","e">>
s_Streaming_net == <<"S","t","r","e","a","m","i","n","g"," ","(","n","e","t",")">>

WorkChoices == {Work(s_Hi, s_Song), Work(s_Yo, s_Song), Work(s_Zed, s_Album)}

ShareChoices ==
  {RoyaltyShare(s_Al, s_streaming, Dy(7, 0)),
   RoyaltyShare(s_Bo, s_Streaming_net, Dy(50, 0)),
   RoyaltyShare(s_Al, s_publishing, Dy(60, 0))}

PartiesOfContract ==
  <<Party(s_AL, s_producer), Party(s_Al, s_artist),
    Party(<<"B","o"," ","(","x",")">>, s_artist)>>

\* The contract records given to the calculators: a list of parties, up to
\* MaxWorks works and up to MaxShares royalty shares, the fields being text
\* and numbers as the data model types them
CalcContracts ==
  {ContractData(PartiesOfContract, works, shares, None) :
     works \in SeqsUpTo(WorkChoices, MaxWorks),
     shares \in SeqsUpTo(ShareChoices, MaxShares)}

PayableHeader == <<PyStr(s_Title), PyStr(s_Net_Payable)>>

\* "Hi" earns 1000.0, "yo yo" earns 3.0, a row without a number is skipped
st_plain ==
  Sheet(PayableHeader,
        << <<PyStr(s_Hi), Dy(1000, 0)>>,
           <<PyStr(s_yo_yo), Dy(3, 0)>>,
           <<PyStr(s_Hi), PyStr(<<"n","/","a">>)>> >>)

\* A row with a blank title comes first; "Hi" earns 2.5 + 10, "yo yo" 3.0
st_blank_title ==
  Sheet(PayableHeader,
        << <<PyStr(<<" "," ">>), Dy(5, 0)>>,
           <<PyStr(s_Hi), Dy(5, 1)>>,
           <<PyStr(s_Hi), PyStr(<<"1","0">>)>>,
           <<PyStr(s_yo_yo), Dy(3, 0)>> >>)

st_no_rows == Sheet(PayableHeader, <<>>)

st_no_columns ==
  Sheet(<<PyStr(s_Song_header), PyStr(s_Fee)>>, << <<PyStr(s_Hi), Dy(5, 0)>> >>)

st_unreadable == [readable |-> FALSE, header |-> <<>>, rows |-> <<>>]

\* One title, "Hi Yo", that holds the titles of two works
st_medley ==
  Sheet(PayableHeader, << <<PyStr(s_Hi \o <<" ">> \o s_Yo), Dy(4, 0)>> >>)

Sheets ==
  {st_plain, st_blank_title, st_no_rows, st_no_columns, st_unreadable,
   st_medley}

\* What parse_contract does on a path
ParseFailed == [exc |-> "ValueError: No text could be extracted from the file",
                value |-> None]

Parsed(contract_data) == [exc |-> "none", value |-> contract_data]

\* The parser keeps parties and shares with a name only, so that a record it
\* returns has named parties and shares or none
ParseResults ==
  {ParseFailed,
   Parsed(ContractData(<<>>, <<>>, <<>>, None)),
   Parsed(ContractData(<<>>, <<Work(s_Hi, s_Song)>>, <<>>, <<"S">>)),
   Parsed(ContractData(PartiesOfContract, <<Work(s_Hi, s_Song)>>,
                       <<RoyaltyShare(s_Al, s_streaming, Dy(50, 0))>>, <<"T">>))}

----------------------------------------------------------------------------
(* Calculation runs: one call of an entry point of the calculator, whose   *)
(* inputs and outcome stay until the caller has consumed them.             *)

Call(entry, contract_data, parses, sheet) ==
  [entry |-> entry, contract_data |-> contract_data, parses |-> parses,
   sheet |-> sheet]

\* calculate_payments_from_data on a parsed record and a statement
CalculatePaymentsFromData ==
  /\ call = NoCall
  /\ \E contract_data \in CalcContracts, sheet \in Sheets :
       /\ call' = Call("calculate_payments_from_data", contract_data, <<>>, sheet)
       /\ outcome' = calculate_payments_from_data(contract_data, sheet, None, None)
  /\ UNCHANGED <<contracts, merged>>

\* calculate_payments on a contract file and a statement
CalculatePayments ==
  /\ call = NoCall
  /\ \E parsed \in {ParseFailed} \cup {Parsed(c) : c \in CalcContracts},
        sheet \in Sheets :
       /\ call' = Call("calculate_payments", parsed.value, <<parsed>>, sheet)
       /\ outcome' = calculate_payments(parsed, sheet, None, None)
  /\ UNCHANGED <<contracts, merged>>

\* calculate_payments_from_contracts on contract files and a statement
CalculatePaymentsFromContracts ==
  /\ call = NoCall
  /\ \E parses \in SeqsUpTo(ParseResults, MaxContracts), sheet \in Sheets :
       /\ call' = Call("calculate_payments_from_contracts", None, parses, sheet)
       /\ outcome' = calculate_payments_from_contracts(parses, sheet)
  /\ UNCHANGED <<contracts, merged>>

\* The caller has consumed the outcome: the run is over, nothing of it stays
FinishRun ==
  /\ call # NoCall
  /\ call' = NoCall
  /\ outcome' = NoOutcome
  /\ UNCHANGED <<contracts, merged>>

NextCalc ==
  \/ CalculatePaymentsFromData
  \/ CalculatePayments
  \/ CalculatePaymentsFromContracts
  \/ FinishRun

SpecCalc == Init /\ [][NextCalc]_vars

----------------------------------------------------------------------------
(* Properties of the payment calculator, checked under SpecCalc.  They are *)
(* stated on the runs of the two entry points that are given one contract  *)
(* record: calculate_payments_from_data and calculate_payments.            *)

\* The run was given a contract record
HasRecord ==
  \/ call.entry = "calculate_payments_from_data"
  \/ call.entry = "calculate_payments" /\ call.parses[1].exc = "none"

RunReturned == HasRecord /\ outcome.returned

\* What the Statement Ingestor makes of the statement of the run
StatementOfRun == read_royalty_statement(call.sheet, None, None)

IsStreaming(share) == Contains(s_streaming, lower(share.royalty_type))

StreamingSharesOfRun == SelectSeq(call.contract_data.royalty_shares, IsStreaming)

\* The Song Matcher's contract: a statement title is equal to the work title
\* under trimming and lower-casing, or one is a substring of the other
Related(work_title, statement_title) ==
  LET w == strip(lower(work_title))
      t == strip(lower(statement_title))
  IN  Contains(w, t) \/ Contains(t, w)

Matched(work, song_totals) ==
  \E i \in DOMAIN song_totals : Related(work.title, song_totals[i].title)

\* The <<work, share>> pairs of the matched works and the given shares, by
\* work in the order of works and, within a work, by share in the order of
\* shares
RECURSIVE PairsOf(_, _, _)
PairsOf(works, shares, song_totals) ==
  IF works = <<>> THEN <<>>
  ELSE (IF Matched(works[1], song_totals)
        THEN [i \in DOMAIN shares |-> <<works[1], shares[i]>>]
        ELSE <<>>)
       \o PairsOf(Tail(works), shares, song_totals)

\* The payment is the record of the pair
IsRecordOf(payment, pair) ==
  /\ payment.song_title = pair[1].title
  /\ payment.party_name = pair[2].party_name
  /\ payment.royalty_type = pair[2].royalty_type
  /\ payment.percentage = pair[2].percentage

\* C7: the payment list a run returns holds exactly one record per (matched
\* work, streaming share) pair and nothing else, ordered by work in the
\* contract's work order and, within a work, by share in the contract's
\* share order.
C7_OneRecordPerMatchedPair ==
  RunReturned =>
    LET pairs == PairsOf(call.contract_data.works, StreamingSharesOfRun,
                         StatementOfRun.val)
    IN  /\ Len(outcome.payments) = Len(pairs)
        /\ \A j \in DOMAIN pairs : IsRecordOf(outcome.payments[j], pairs[j])

\* The payment carries the percentage of a share of the contract, as the
\* contract states it, and the total of a statement title related to its work
FromShareAndTotal(payment) ==
  /\ \E i \in DOMAIN call.contract_data.royalty_shares :
       LET share == call.contract_data.royalty_shares[i]
       IN  /\ share.party_name = payment.party_name
           /\ share.royalty_type = payment.royalty_type
           /\ share.percentage = payment.percentage
  /\ \E i \in DOMAIN StatementOfRun.val :
       /\ Related(payment.song_title, StatementOfRun.val[i].title)
       /\ StatementOfRun.val[i].amount = payment.total_royalty

\* C8 as the specification words it: every payment record satisfies
\* amount_to_pay == matched_revenue_total * percentage / 100.0 exactly, the
\* product being taken first as the expression reads, with the share's
\* percentage unchanged and no rounding or rescaling.
C8_AmountIsProductOverHundred ==
  RunReturned =>
    \A j \in DOMAIN outcome.payments :
      LET payment == outcome.payments[j]
      IN  /\ FromShareAndTotal(payment)
          /\ payment.amount_to_pay =
               div100(mul_exact(payment.total_royalty, payment.percentage))

\* C8: every payment record satisfies amount_to_pay ==
\* matched_revenue_total * (percentage / 100.0) exactly, the quotient
\* percentage / 100.0 being rounded to a double before the product is taken,
\* with the share's percentage unchanged and no further rounding; the
\* percentages of a work are never rescaled, whether or not they sum to 100.
C8_AmountIsTotalTimesHundredth ==
  RunReturned =>
    \A j \in DOMAIN outcome.payments :
      LET payment == outcome.payments[j]
      IN  /\ FromShareAndTotal(payment)
          /\ payment.amount_to_pay =
               mul(payment.total_royalty, div100(payment.percentage))

\* A run has paid two shares of one work whose percentages do not sum to
\* 100, and one amount is not the double of the product taken first
C8_Witness ==
  /\ RunReturned
  /\ \E j \in DOMAIN outcome.payments, k \in DOMAIN outcome.payments :
       /\ j < k
       /\ outcome.payments[j].song_title = outcome.payments[k].song_title
       /\ add_exact(outcome.payments[j].percentage,
                    outcome.payments[k].percentage) # Dy(100, 0)
       /\ outcome.payments[j].amount_to_pay #
            div100(mul_exact(outcome.payments[j].total_royalty,
                             outcome.payments[j].percentage))

InvalidContractDataError ==
  {"ValueError: No works found in the provided contract data",
   "ValueError: No royalty share data found in the provided contract data"}

EmptyStatementError == "ValueError: No songs found in the royalty statement"

\* C9: a run fails with InvalidContractDataError when the contract record
\* has no Work or no RoyaltyShare, unless the ingestion has failed before,
\* and with EmptyStatementError when the statement aggregate is empty; in
\* each of these cases, and on any ingestion failure, the run returns no
\* payment list at all.  This holds for every entry point.
C9_PreconditionFailuresAbort ==
  HasRecord =>
    LET invalid == \/ call.contract_data.works = <<>>
                   \/ call.contract_data.royalty_shares = <<>>
        failed  == StatementOfRun.exc # "none"
        empty   == ~failed /\ StatementOfRun.val = <<>>
    IN  /\ (invalid \/ failed \/ empty) => ~outcome.returned
        /\ invalid =>
             outcome.exc \in InvalidContractDataError \cup {StatementOfRun.exc}
        /\ (empty /\ ~invalid) => outcome.exc = EmptyStatementError

\* C10: only royalty shares whose royalty_type contains "streaming",
\* whatever the case of its letters, produce payment records; when the
\* contract has works and shares but no streaming share and the statement is
\* valid and non-empty, the calculator returns an empty list and raises no
\* error.
C10_OnlyStreamingSharesPaid ==
  HasRecord =>
    /\ outcome.returned =>
         \A j \in DOMAIN outcome.payments :
           \E i \in DOMAIN StreamingSharesOfRun :
             /\ StreamingSharesOfRun[i].party_name = outcome.payments[j].party_name
             /\ StreamingSharesOfRun[i].royalty_type = outcome.payments[j].royalty_type
             /\ StreamingSharesOfRun[i].percentage = outcome.payments[j].percentage
    /\ ( /\ call.contract_data.works # <<>>
         /\ call.contract_data.royalty_shares # <<>>
         /\ StreamingSharesOfRun = <<>>
         /\ StatementOfRun.exc = "none"
         /\ StatementOfRun.val # <<>> )
       => outcome = Returned(<<>>)

\* A run on a contract whose only share is a publishing share and whose work
\* is in the statement has returned the empty list
C10_Witness ==
  /\ HasRecord
  /\ outcome = Returned(<<>>)
  /\ call.contract_data.royalty_shares # <<>>
  /\ StreamingSharesOfRun = <<>>
  /\ StatementOfRun.exc = "none"
  /\ \E i \in DOMAIN call.contract_data.works :
       Matched(call.contract_data.works[i], StatementOfRun.val)

\* seq without its i-th item
RemoveAt(seq, i) == SubSeq(seq, 1, i - 1) \o SubSeq(seq, i + 1, Len(seq))

\* What the entry point of the run does on another contract record and the
\* statement of the run
OutcomeOn(contract_data) ==
  IF call.entry = "calculate_payments_from_data"
  THEN calculate_payments_from_data(contract_data, call.sheet, None, None)
  ELSE calculate_payments(Parsed(contract_data), call.sheet, None, None)

\* C11: a work with no matching statement entry produces no payment record
\* and raises no error, and the run ends as it would if the unmatched work
\* were absent from the contract: with the same records for the other works.
C11_UnmatchedWorkLeftOut ==
  HasRecord =>
    \A i \in DOMAIN call.contract_data.works :
      ~Matched(call.contract_data.works[i], StatementOfRun.val) =>
        /\ \A j \in DOMAIN outcome.payments :
             outcome.payments[j].song_title # call.contract_data.works[i].title
        /\ Len(call.contract_data.works) > 1 =>
             outcome = OutcomeOn([call.contract_data EXCEPT
                                    !.works = RemoveAt(@, i)])
        /\ ( /\ Len(call.contract_data.works) = 1
             /\ call.contract_data.royalty_shares # <<>>
             /\ StatementOfRun.exc = "none"
             /\ StatementOfRun.val # <<>> )
           => outcome = Returned(<<>>)

\* A run has paid a work of a contract that lists, before it, a work the
\* statement does not have
C11_Witness ==
  /\ RunReturned
  /\ outcome.payments # <<>>
  /\ StatementOfRun.val # <<>>
  /\ ~Matched(call.contract_data.works[1], StatementOfRun.val)

\* The i-th party of the contract has the name, up to the case of letters
SameName(i, party_name) ==
  lower(call.contract_data.parties[i].name) = lower(party_name)

\* C14: the role of each payment record is the role of the Party whose name
\* equals the share's party_name when the case of letters is ignored, the
\* first such Party of the contract, with no stripping of parenthesized
\* annotations and no fuzzy matching; when no Party matches, the role is
\* "Unknown".
C14_RoleOfPartyWithSameName ==
  RunReturned =>
    \A j \in DOMAIN outcome.payments :
      LET payment == outcome.payments[j]
          parties == call.contract_data.parties
      IN  /\ \A i \in DOMAIN parties :
               ( /\ SameName(i, payment.party_name)
                 /\ \A h \in 1..(i - 1) : ~SameName(h, payment.party_name) )
               => payment.role = parties[i].role
          /\ (\A i \in DOMAIN parties : ~SameName(i, payment.party_name))
               => payment.role = s_Unknown

\* A run has given one payment the role of a party whose name differs from
\* the share's in the case of letters, and another payment the role
\* "Unknown" although a party has the share's name with an annotation
C14_Witness ==
  /\ RunReturned
  /\ \E j \in DOMAIN outcome.payments, i \in DOMAIN call.contract_data.parties :
       /\ SameName(i, outcome.payments[j].party_name)
       /\ call.contract_data.parties[i].name # outcome.payments[j].party_name
       /\ outcome.payments[j].role = call.contract_data.parties[i].role
  /\ \E j \in DOMAIN outcome.payments, i \in DOMAIN call.contract_data.parties :
       /\ clean(call.contract_data.parties[i].name) =
            clean(outcome.payments[j].party_name)
       /\ outcome.payments[j].role = s_Unknown

----------------------------------------------------------------------------
(* Runs of the Song Matcher: _find_matching_song on a work title and an    *)
(* aggregate as read_royalty_statement builds them, a dict whose keys are  *)
(* distinct trimmed titles, in the order of their first rows.              *)

MaxTitles == 2

s_hi   == <<"h","i">>
s_Hi_x == <<"H","i"," ","x">>
s_hi_x_y == <<"h","i"," ","x"," ","y">>
s_sp_hi_sp == <<" ","h","i"," ">>

StatementTitles == {s_Hi, s_hi, s_Hi_x, s_yo_yo, <<>>}

WorkTitles == {s_Hi, s_sp_hi_sp, s_hi_x_y, s_Yo, s_Zed, <<" ">>}

\* The i-th key of the dict carries the total i
Aggregates ==
  {[i \in DOMAIN titles |-> [title |-> titles[i], amount |-> Dy(i, 0)]] :
     titles \in {t \in SeqsUpTo(StatementTitles, MaxTitles) :
                   \A i, j \in DOMAIN t : i # j => t[i] # t[j]}}

FindMatchingSong ==
  /\ call = NoCall
  /\ \E song_title \in WorkTitles, song_totals \in Aggregates :
       /\ call' = [entry |-> "_find_matching_song", song_title |-> song_title,
                   song_totals |-> song_totals]
       /\ outcome' = [exc |-> "none", returned |-> TRUE,
                      value |-> _find_matching_song(song_title, song_totals)]
  /\ UNCHANGED <<contracts, merged>>

NextMatch ==
  \/ FindMatchingSong
  \/ FinishRun

SpecMatch == Init /\ [][NextMatch]_vars

MatcherRun == call.entry = "_find_matching_song"

\* The title under trimming and lower-casing
Normalized(title) == strip(lower(title))

ExactAt(i) ==
  Normalized(call.song_totals[i].title) = Normalized(call.song_title)

SubstringAt(i) ==
  \/ Contains(Normalized(call.song_title), Normalized(call.song_totals[i].title))
  \/ Contains(Normalized(call.song_totals[i].title), Normalized(call.song_title))

\* The matcher has returned the i-th title of the aggregate and its total
ReturnedEntry(i) ==
  /\ outcome.exc = "none"
  /\ outcome.value.title = call.song_totals[i].title
  /\ outcome.value.amount = call.song_totals[i].amount

\* C12: whenever some statement title equals the work title after trimming
\* and lower-casing both, _find_matching_song returns the first such title
\* of the aggregate with its total, even if a title before it matches by
\* substring; a work titled exactly as a statement title exact-matches.
C12_ExactMatchWins ==
  MatcherRun =>
    /\ \A i \in DOMAIN call.song_totals :
         (ExactAt(i) /\ \A h \in 1..(i - 1) : ~ExactAt(h)) => ReturnedEntry(i)
    /\ (\E i \in DOMAIN call.song_totals :
          call.song_totals[i].title = call.song_title)
       => Normalized(outcome.value.title) = Normalized(call.song_title)

\* The matcher has returned the exact-equal second title of an aggregate
\* whose first title contains the work title
C12_Witness ==
  /\ MatcherRun
  /\ Len(call.song_totals) >= 2
  /\ SubstringAt(1) /\ ~ExactAt(1)
  /\ ExactAt(2)
  /\ ReturnedEntry(2)

\* C13: when no statement title is exact-equal, _find_matching_song returns
\* the first title of the aggregate such that the normalized work title is a
\* substring of the normalized statement title or the other way round, with
\* its total; it returns the not-found signal (None, 0.0), without raising,
\* exactly when no title is exact-equal and none is substring-related.
C13_FirstSubstringMatchElseNotFound ==
  MatcherRun =>
    /\ outcome.exc = "none"
    /\ (\A i \in DOMAIN call.song_totals : ~ExactAt(i)) =>
         \A i \in DOMAIN call.song_totals :
           (SubstringAt(i) /\ \A h \in 1..(i - 1) : ~SubstringAt(h))
             => ReturnedEntry(i)
    /\ outcome.value = NotFound
         <=> \A i \in DOMAIN call.song_totals : ~ExactAt(i) /\ ~SubstringAt(i)

\* The matcher has returned the second title of an aggregate, which is
\* contained in the work title, no title being exact-equal and the first one
\* unrelated
C13_Witness ==
  /\ MatcherRun
  /\ Len(call.song_totals) >= 2
  /\ \A i \in DOMAIN call.song_totals : ~ExactAt(i)
  /\ ~SubstringAt(1)
  /\ Contains(Normalized(call.song_totals[2].title), Normalized(call.song_title))
  /\ call.song_totals[2].title # <<>>
  /\ ReturnedEntry(2)

\* The matcher has returned the not-found signal on an aggregate that is not
\* empty
C13_WitnessNotFound ==
  MatcherRun /\ call.song_totals # <<>> /\ outcome.value = NotFound

----------------------------------------------------------------------------
(* Runs of the column detection: _find_title_column and                    *)
(* _find_payable_column on a list of headers as line 77 makes them, text   *)
(* that is trimmed, lower-cased and not empty.                             *)

MaxHeaders == 3

s_withheld_amount == s_withheld \o <<" ">> \o s_amount

s_net_amount_withheld == s_net_amount \o <<" ">> \o s_withheld

HeaderChoices ==
  {s_release_title, s_track, s_net_payable, s_withheld_amount, s_amount,
   s_net_amount_withheld, lower(s_Song_header)}

HeaderLists == SeqsUpTo(HeaderChoices, MaxHeaders)

FindTitleColumn ==
  /\ call = NoCall
  /\ \E headers \in HeaderLists :
       LET found == _find_title_column(headers)
       IN  /\ call' = [entry |-> "_find_title_column", headers |-> headers]
           /\ outcome' = [exc |-> found.exc, returned |-> found.exc = "none",
                          value |-> found.val]
  /\ UNCHANGED <<contracts, merged>>

FindPayableColumn ==
  /\ call = NoCall
  /\ \E headers \in HeaderLists :
       LET found == _find_payable_column(headers)
       IN  /\ call' = [entry |-> "_find_payable_column", headers |-> headers]
           /\ outcome' = [exc |-> found.exc, returned |-> found.exc = "none",
                          value |-> found.val]
  /\ UNCHANGED <<contracts, merged>>

NextColumns ==
  \/ FindTitleColumn
  \/ FindPayableColumn
  \/ FinishRun

SpecColumns == Init /\ [][NextColumns]_vars

\* The header contains one of the words
HasOneOf(words, header) == \E w \in words : Contains(w, header)

HighPrecision ==
  {s_net_payable, s_net_payment, s_total_payable, s_net_revenue, s_net_amount}

Loose == {s_payable, s_amount, s_earnings, s_payment}

Holdback == {s_withheld, s_deduction, s_fee}

\* The run has returned the i-th header
ReturnedHeader(i) == outcome.returned /\ outcome.value = call.headers[i]

ColumnNotFoundError ==
  {"ValueError: Could not auto-detect title column",
   "ValueError: Could not auto-detect payable column"}

\* C15: payable-column detection returns the first header, in file order,
\* that equals or contains a high-precision synonym whenever there is one,
\* whatever loose-synonym headers stand before it, so that the headers
\* "release title", "net payable", "withheld amount" resolve to
\* "net payable"; it fails with ColumnNotFoundError when neither pass finds
\* a header.
C15_HighPrecisionHeaderFirst ==
  call.entry = "_find_payable_column" =>
    /\ \A i \in DOMAIN call.headers :
         ( /\ HasOneOf(HighPrecision, call.headers[i])
           /\ \A h \in 1..(i - 1) : ~HasOneOf(HighPrecision, call.headers[h]) )
         => ReturnedHeader(i)
    /\ call.headers = <<s_release_title, s_net_payable, s_withheld_amount>>
         => outcome.returned /\ outcome.value = s_net_payable
    /\ (\A i \in DOMAIN call.headers :
          /\ ~HasOneOf(HighPrecision, call.headers[i])
          /\ ~( /\ HasOneOf(Loose, call.headers[i])
                /\ ~HasOneOf(Holdback, call.headers[i]) ))
       <=> (~outcome.returned /\ outcome.exc \in ColumnNotFoundError)

\* The detection has returned a high-precision header that stands after a
\* header the fallback pass accepts
C15_Witness ==
  /\ call.entry = "_find_payable_column"
  /\ \E i \in DOMAIN call.headers :
       /\ ReturnedHeader(i)
       /\ HasOneOf(HighPrecision, call.headers[i])
       /\ \E h \in 1..(i - 1) :
            /\ HasOneOf(Loose, call.headers[h])
            /\ ~HasOneOf(Holdback, call.headers[h])
            /\ ~HasOneOf(HighPrecision, call.headers[h])

\* C16: payable-column detection never takes a fee or holdback column for
\* revenue: the fallback pass rejects every header containing "withheld",
\* "deduction" or "fee", so that the column _find_payable_column returns
\* contains none of these words.
C16_NoHoldbackColumnReturned ==
  (call.entry = "_find_payable_column" /\ outcome.returned)
    => ~HasOneOf(Holdback, outcome.value)

TitleSynonyms ==
  {s_release_title, s_title, s_song_title, s_track_title, s_song_name,
   s_track_name, s_release_name, s_track}

\* C17: title-column detection returns the first normalized header, in file
\* order, that contains one of the fixed title synonyms, and fails with
\* ColumnNotFoundError when no header contains one.
C17_FirstTitleHeader ==
  call.entry = "_find_title_column" =>
    /\ \A i \in DOMAIN call.headers :
         ( /\ HasOneOf(TitleSynonyms, call.headers[i])
           /\ \A h \in 1..(i - 1) : ~HasOneOf(TitleSynonyms, call.headers[h]) )
         => ReturnedHeader(i)
    /\ (\A i \in DOMAIN call.headers :
          ~HasOneOf(TitleSynonyms, call.headers[i]))
       <=> (~outcome.returned /\ outcome.exc \in ColumnNotFoundError)

\* The detection has returned a title header that stands after a header
\* without a synonym and before another title header
C17_Witness ==
  /\ call.entry = "_find_title_column"
  /\ Len(call.headers) = 3
  /\ ~HasOneOf(TitleSynonyms, call.headers[1])
  /\ HasOneOf(TitleSynonyms, call.headers[3])
  /\ call.headers[2] # call.headers[3]
  /\ ReturnedHeader(2)

----------------------------------------------------------------------------
(* Runs of the Statement Ingestor: read_royalty_statement on a sheet of    *)
(* three columns, with or without a title_column and a payable_column.     *)
(* The first column holds the titles, text or empty cells.                 *)

MaxRows == 2

\* Row 1 of the sheet: "Title", " Net Payable " and an empty cell; "Title",
\* an empty cell and "Net Payable"; "Song", "Fee" and "Amount"
HeaderRows ==
  {<<PyStr(s_Title), PyStr(<<" ">> \o s_Net_Payable \o <<" ">>), PyNone>>,
   <<PyStr(s_Title), PyNone, PyStr(s_Net_Payable)>>,
   <<PyStr(s_Song_header), PyStr(s_Fee), PyStr(<<"A">> \o Tail(s_amount))>>}

\* The rows after it: ("Hi", 2.5, 1.0), (" hi ", "10", empty),
\* (empty, "Yo", 3.0), ("Yo", "n/a", 4.0), ("  ", 5.0, 5.0), ("Yo", empty, 7.0)
RowChoices ==
  {<<PyStr(s_Hi), Dy(5, 1), Dy(1, 0)>>,
   <<PyStr(s_sp_hi_sp), PyStr(<<"1","0">>), PyNone>>,
   <<PyNone, PyStr(s_Yo), Dy(3, 0)>>,
   <<PyStr(s_Yo), PyStr(<<"n","/","a">>), Dy(4, 0)>>,
   <<PyStr(<<" "," ">>), Dy(5, 0), Dy(5, 0)>>,
   <<PyStr(s_Yo), PyNone, Dy(7, 0)>>}

IngestSheets ==
  {Sheet(header, rows) :
     header \in HeaderRows, rows \in SeqsUpTo(RowChoices, MaxRows)}

\* title_column: absent, "TITLE" or "Song"
TitleColumns == {None, <<"T","I","T","L","E">>, s_Song_header}

\* payable_column: absent, "AMOUNT" or "FEE"
PayableColumns == {None, <<"A","M","O","U","N","T">>, <<"F","E","E">>}

ReadRoyaltyStatement ==
  /\ call = NoCall
  /\ \E sheet \in IngestSheets, title_column \in TitleColumns,
        payable_column \in PayableColumns :
       LET read == read_royalty_statement(sheet, title_column, payable_column)
       IN  /\ call' = [entry |-> "read_royalty_statement", sheet |-> sheet,
                       title_column |-> title_column,
                       payable_column |-> payable_column]
           /\ outcome' = [exc |-> read.exc, returned |-> read.exc = "none",
                          value |-> read.val, cause |-> read.cause,
                          headers |-> read.headers]
  /\ UNCHANGED <<contracts, merged>>

NextIngest ==
  \/ ReadRoyaltyStatement
  \/ FinishRun

SpecIngest == Init /\ [][NextIngest]_vars

IngestRun == call.entry = "read_royalty_statement"

\* The normalized headers of the sheet of the run
HeadersOfRun == extract_headers(call.sheet.header)

\* The headers selected for the titles and for the payable amounts: the one
\* named by the caller, lower-cased, else the one detected
SelectedTitle ==
  IF call.title_column # None THEN lower(call.title_column)
  ELSE _find_title_column(HeadersOfRun).val

SelectedPayable ==
  IF call.payable_column # None THEN lower(call.payable_column)
  ELSE _find_payable_column(HeadersOfRun).val

\* The cell of row 1 at the position holds the header
HoldsHeader(position, header) ==
  /\ CellTruthy(call.sheet.header[position])
  /\ lower(strip(call.sheet.header[position].s)) = header

\* The column of the sheet whose cell of row 1 holds the header, the first
\* one if several do
ColumnOf(header) ==
  CHOOSE position \in DOMAIN call.sheet.header :
    /\ HoldsHeader(position, header)
    /\ \A before \in 1..(position - 1) : ~HoldsHeader(before, header)

\* C18: blank header cells do not shift column indices: the title and the
\* payable value read from each data row come from the columns of the sheet
\* in which the selected title header and the selected payable header stand,
\* also when a blank header cell precedes them.
C18_BlankHeaderCellsKeepColumns ==
  (IngestRun /\ outcome.returned) =>
    outcome.value = read_rows(<<>>, call.sheet.rows, ColumnOf(SelectedTitle),
                              ColumnOf(SelectedPayable))

\* The cell holds a number or text that float() converts
IsNumeric(cell) == cell.kind # "None" /\ float(cell).exc = "none"

\* The row counts: its title cell is not empty and its payable cell is
\* numeric, the cells being those at the two positions
Counts(row, title_at, payable_at) ==
  CellTruthy(row[title_at]) /\ IsNumeric(row[payable_at])

\* The sum of the payable values of the rows of the sheet that count and
\* have the trimmed title
TotalOf(title, title_at, payable_at) ==
  Fold(LAMBDA acc, row :
         IF Counts(row, title_at, payable_at) /\ strip(row[title_at].s) = title
         THEN add_exact(acc, float(row[payable_at]).val)
         ELSE acc,
       Dy(0, 0), call.sheet.rows)

\* The aggregate maps each trimmed title of a row that counts, and nothing
\* else, to the sum of the payable values of the rows that count and have
\* that trimmed title
IsAggregateOf(song_totals, title_at, payable_at) ==
  /\ \A i, j \in DOMAIN song_totals :
       i # j => song_totals[i].title # song_totals[j].title
  /\ \A i \in DOMAIN song_totals :
       /\ \E r \in DOMAIN call.sheet.rows :
            /\ Counts(call.sheet.rows[r], title_at, payable_at)
            /\ strip(call.sheet.rows[r][title_at].s) = song_totals[i].title
       /\ song_totals[i].amount =
            TotalOf(song_totals[i].title, title_at, payable_at)
  /\ \A r \in DOMAIN call.sheet.rows :
       Counts(call.sheet.rows[r], title_at, payable_at) =>
         \E i \in DOMAIN song_totals :
           song_totals[i].title = strip(call.sheet.rows[r][title_at].s)

\* Both selected headers are among the headers of the sheet
ColumnsFound ==
  /\ \E i \in DOMAIN HeadersOfRun : HeadersOfRun[i] = SelectedTitle
  /\ \E i \in DOMAIN HeadersOfRun : HeadersOfRun[i] = SelectedPayable

\* C19: the aggregate maps each trimmed title to the sum of the payable
\* values of exactly the data rows with that trimmed title whose title cell
\* is not empty and whose payable cell is numeric, the cells being those of
\* the title column and of the payable column; rows with an empty title or a
\* missing or non-numeric payable cell are skipped without failing the
\* ingestion and contribute to no total.
C19_AggregateSumsCountedRows ==
  (IngestRun /\ ColumnsFound) =>
    /\ outcome.returned
    /\ IsAggregateOf(outcome.value, ColumnOf(SelectedTitle),
                     ColumnOf(SelectedPayable))

\* The header is among the normalized headers of the sheet
IsHeader(header) == \E i \in DOMAIN HeadersOfRun : HeadersOfRun[i] = header

\* The causes that make a ColumnNotFoundError
ColumnNotFoundCauses ==
  ColumnNotFoundError \cup {"ValueError: Could not find required columns"}

\* C20: a title_column or payable_column given by the caller is compared
\* with the normalized headers without regard to the case of its letters
\* and takes the place of the detection of that column: when the named
\* header exists it is the one selected, also when the detection would fail
\* or select another header, and when it does not exist the ingestion fails
\* with ColumnNotFoundError.
C20_NamedColumnSelected ==
  (IngestRun /\ (call.title_column # None \/ call.payable_column # None)) =>
    /\ (call.title_column # None /\ ~IsHeader(lower(call.title_column)))
         => ~outcome.returned /\ outcome.cause \in ColumnNotFoundCauses
    /\ (call.payable_column # None /\ ~IsHeader(lower(call.payable_column)))
         => ~outcome.returned /\ outcome.cause \in ColumnNotFoundCauses
    /\ ( /\ call.title_column # None => IsHeader(lower(call.title_column))
         /\ call.title_column = None
              => _find_title_column(HeadersOfRun).exc = "none"
         /\ call.payable_column # None => IsHeader(lower(call.payable_column))
         /\ call.payable_column = None
              => _find_payable_column(HeadersOfRun).exc = "none" )
       => /\ outcome.returned
          /\ outcome.value =
               read_rows(<<>>, call.sheet.rows,
                         index(HeadersOfRun, SelectedTitle),
                         index(HeadersOfRun, SelectedPayable))

\* An ingestion has returned the totals of the columns the caller names
\* "Song" and, in other letters than the sheet's, "FEE", where the detection
\* finds no title column and selects "amount"
C20_Witness ==
  /\ IngestRun
  /\ outcome.returned /\ outcome.value # <<>>
  /\ call.title_column # None /\ call.payable_column # None
  /\ \A i \in DOMAIN call.sheet.header :
       call.sheet.header[i].s # call.payable_column
  /\ _find_title_column(HeadersOfRun).exc # "none"
  /\ _find_payable_column(HeadersOfRun).val # lower(call.payable_column)

\* A run of the ingestor has failed for want of a title or payable column
ColumnNotFound ==
  IngestRun /\ ~outcome.returned /\ outcome.cause \in ColumnNotFoundCauses

\* C21: a failure to find the title or the payable column, by detection or
\* for a column the caller names, reaches the caller as an error that
\* carries the list of the headers of the sheet.
C21_ColumnFailureCarriesHeaders ==
  ColumnNotFound => outcome.headers = HeadersOfRun

----------------------------------------------------------------------------
(* Further properties of the payment calculator, checked under SpecCalc *)

\* No two works of the record of the run have the same key, as in a record
\* merge_contracts returns
DistinctWorks ==
  NoTwoWithSameKey(WorkKey, call.contract_data.works)

\* The total of the i-th title of the statement is the total_royalty of a
\* payment of the work
UsedFor(i, work) ==
  \E j \in DOMAIN outcome.payments :
    /\ outcome.payments[j].song_title = work.title
    /\ outcome.payments[j].total_royalty = StatementOfRun.val[i].amount
    /\ Related(work.title, StatementOfRun.val[i].title)

\* C25: no revenue of the statement is counted for two works: in a run on a
\* record whose works are distinct, the total of a statement title is the
\* total_royalty of the payments of at most one work.
C25_TitleTotalUsedForOneWork ==
  (RunReturned /\ DistinctWorks) =>
    \A i \in DOMAIN StatementOfRun.val :
      \A a, b \in DOMAIN call.contract_data.works :
        ( /\ UsedFor(i, call.contract_data.works[a])
          /\ UsedFor(i, call.contract_data.works[b]) ) => a = b

\* The title cell of a statement row is blank: empty, or text of blanks only
BlankTitle(cell) ==
  cell.kind = "None" \/ (cell.kind = "str" /\ strip(cell.s) = <<>>)

\* The entry of the aggregate comes from rows with a blank title cell: its
\* title is the trimmed text of such a cell (the statements of the runs hold
\* their titles in the first column)
FromBlankTitleRows(entry) ==
  \E r \in DOMAIN call.sheet.rows :
    /\ BlankTitle(call.sheet.rows[r][1])
    /\ call.sheet.rows[r][1].kind = "str"
    /\ entry.title = strip(call.sheet.rows[r][1].s)

\* No payment of the run carries the total of an entry that comes from rows
\* with a blank title cell
NoPaymentFromBlankTitleRows ==
  outcome.returned =>
    \A j \in DOMAIN outcome.payments :
      \E i \in DOMAIN StatementOfRun.val :
        /\ ~FromBlankTitleRows(StatementOfRun.val[i])
        /\ Related(outcome.payments[j].song_title, StatementOfRun.val[i].title)
        /\ outcome.payments[j].total_royalty = StatementOfRun.val[i].amount

\* C26: a statement row whose title cell is blank or whitespace-only never
\* contributes revenue to a payment: it adds no entry to the aggregate that
\* the Song Matcher matches to a work of the contract, and no payment carries
\* a total it has part in.
C26_BlankTitleRowsAddNothing ==
  (HasRecord /\ StatementOfRun.exc = "none") =>
    /\ \A i \in DOMAIN StatementOfRun.val :
         FromBlankTitleRows(StatementOfRun.val[i]) =>
           \A w \in DOMAIN call.contract_data.works :
             _find_matching_song(call.contract_data.works[w].title,
                                 StatementOfRun.val) # StatementOfRun.val[i]
    /\ NoPaymentFromBlankTitleRows

\* The inputs of the run satisfy what calculate_payments_from_data asks for:
\* the record has a work and a streaming share, and the statement is read
\* and its aggregate is not empty
PathsComparable ==
  /\ HasRecord
  /\ call.contract_data.works # <<>>
  /\ StreamingSharesOfRun # <<>>
  /\ StatementOfRun.exc = "none" /\ StatementOfRun.val # <<>>

\* What the other of the two paths gives on the inputs of the run
OtherPath ==
  IF call.entry = "calculate_payments"
  THEN calculate_payments_from_data(call.contract_data, call.sheet, None, None)
  ELSE calculate_payments(Parsed(call.contract_data), call.sheet, None, None)

\* C27: on the same contract data with at least one work and at least one
\* streaming share and the same statement with a non-empty aggregate,
\* calculate_payments and calculate_payments_from_data return the same list
\* of payment records, in the same order.
C27_PathsAgree ==
  PathsComparable =>
    /\ outcome.returned /\ OtherPath.returned
    /\ outcome.payments = OtherPath.payments

\* calculate_payments has returned payments for the second of two works,
\* the first having no match in the statement, with a share that is paid and
\* a share that is not
C27_Witness ==
  /\ PathsComparable /\ call.entry = "calculate_payments"
  /\ Len(call.contract_data.works) = 2
  /\ ~Matched(call.contract_data.works[1], StatementOfRun.val)
  /\ Len(StreamingSharesOfRun) < Len(call.contract_data.royalty_shares)
  /\ outcome.payments # <<>>

----------------------------------------------------------------------------
(* Further properties of the merger, checked under SpecMerge *)

\* The party has a name: its name is neither None nor ""
Named(p) == Truthy(p.name)

\* C23: no contributor is dropped by the merge: for every Party with a
\* non-empty name in a record given to merge_contracts, the record it returns
\* holds a Party with the same normalized name.
C23_NoContributorDropped ==
  merged.called =>
    \A i \in DOMAIN AllParties(merged.input) :
      Named(AllParties(merged.input)[i]) =>
        /\ merged.exc = "none"
        /\ \E j \in DOMAIN merged.value.parties :
             PartyKey(merged.value.parties[j])
               = PartyKey(AllParties(merged.input)[i])

----------------------------------------------------------------------------
(* A session: calls of merge_contracts and calculate_payments_from_data     *)
(* made one after another on one RoyaltyCalculator.  The object holds its   *)
(* contract_parser only (line 54); a call keeps its lists, its seen sets    *)
(* and its song_totals in locals.  The frame of a call holds its arguments, *)
(* its position, its locals and, under left, the locals the call before it  *)
(* ended with.                                                              *)

\* A calculator that keeps the seen sets and song_totals from call to call
locals_with_seen_kept(left) ==
  [merge |-> [MergeLocals EXCEPT !.seen_parties = left.merge.seen_parties,
                                 !.seen_works = left.merge.seen_works,
                                 !.seen_shares = left.merge.seen_shares],
   song_totals |-> left.song_totals]

\* Lines 238-253 bind the lists and the seen sets of merge_contracts and line
\* 100 binds song_totals, to new empty values, whatever the call before left
locals_at_entry(left) == [merge |-> MergeLocals, song_totals |-> <<>>]

\* Lines 283-292: what merge_contracts returns from its locals
merge_return(acc) ==
  IF acc.exc # "none" THEN [exc |-> acc.exc, returned |-> FALSE, value |-> None]
  ELSE [exc |-> "none", returned |-> TRUE,
        value |-> ContractData(acc.merged_parties, acc.merged_works,
                               acc.merged_royalty_shares,
                               merged_summary(acc.summaries))]

\* Lines 69-97 without a title_column or payable_column: the positions of
\* the two columns in the header list, or the failure
find_columns(sheet) ==
  IF ~sheet.readable
  THEN [exc |-> "Exception: Error reading royalty statement",
        title_idx |-> 0, payable_idx |-> 0]
  ELSE
    LET headers == extract_headers(sheet.header)
        title   == _find_title_column(headers)
        payable == _find_payable_column(headers)
    IN  IF title.exc # "none" \/ payable.exc # "none"
        THEN [exc |-> "Exception: Error reading royalty statement",
              title_idx |-> 0, payable_idx |-> 0]
        ELSE [exc |-> "none", title_idx |-> index(headers, title.val),
              payable_idx |-> index(headers, payable.val)]

\* Lines 319-322: the checks of calculate_payments_from_data on its record
validate(contract_data) ==
  IF contract_data.works = <<>>
  THEN "ValueError: No works found in the provided contract data"
  ELSE IF contract_data.royalty_shares = <<>>
  THEN "ValueError: No royalty share data found in the provided contract data"
  ELSE "none"

\* Lines 327-379: what calculate_payments_from_data returns once the
\* statement is read
calculate_return(contract_data, song_totals) ==
  IF song_totals = <<>>
  THEN Raised("ValueError: No songs found in the royalty statement")
  ELSE IF streaming_shares(contract_data) = <<>> THEN Returned(<<>>)
  ELSE Returned(payments_of_works(contract_data, contract_data.works,
                                  song_totals))

\* The records merged in a session: two that restate a work and a share, one
\* with other works, one that names a party
SessionContracts == {c_hi, c_hi_again, c_yo, c_al}

\* The records and statements of the calculations of a session
SessionRecords ==
  {ContractData(PartiesOfContract, works,
                <<RoyaltyShare(s_Al, s_streaming, Dy(7, 0))>>, None) :
     works \in {<<>>, <<Work(s_Hi, s_Song), Work(s_Yo, s_Song)>>}}

SessionSheets == {st_plain, st_blank_title, st_no_rows, st_no_columns}

Frame(entry, cs, contract_data, sheet, left) ==
  [entry |-> entry, contracts |-> cs, contract_data |-> contract_data,
   sheet |-> sheet, at |-> 1, pc |-> "running", left |-> left,
   locals |-> locals_at_entry(left)]

\* A call is running
Running == call # NoCall /\ call.pc = "running"

\* No call is running: none was made yet or the last one is over
Idle == ~Running

\* The locals the last call ended with, those of no call before the first
LeftBy(frame) ==
  IF frame = NoCall THEN [merge |-> MergeLocals, song_totals |-> <<>>]
  ELSE frame.locals

\* merge_contracts(contracts) is called
SessionMerge ==
  /\ Idle
  /\ \E cs \in SeqsUpTo(SessionContracts, MaxContracts) :
       call' = Frame("merge_contracts", cs, None, None, LeftBy(call))
  /\ outcome' = NoOutcome
  /\ UNCHANGED <<contracts, merged>>

\* Lines 255-281: one turn of the loop over the contracts
SessionMergeContract ==
  /\ Running /\ call.entry = "merge_contracts"
  /\ call.at <= Len(call.contracts)
  /\ call' = [call EXCEPT
                !.locals.merge = merge_contract(@, call.contracts[call.at]),
                !.at = @ + 1]
  /\ UNCHANGED <<contracts, merged, outcome>>

\* Lines 283-292, or the exception leaves the call
SessionMergeReturn ==
  /\ Running /\ call.entry = "merge_contracts"
  /\ call.at > Len(call.contracts)
  /\ outcome' = merge_return(call.locals.merge)
  /\ call' = [call EXCEPT !.pc = "over"]
  /\ UNCHANGED <<contracts, merged>>

\* calculate_payments_from_data(contract_data, statement_path) is called
SessionCalculate ==
  /\ Idle
  /\ \E contract_data \in SessionRecords, sheet \in SessionSheets :
       call' = Frame("calculate_payments_from_data", <<>>, contract_data,
                     sheet, LeftBy(call))
  /\ outcome' = NoOutcome
  /\ UNCHANGED <<contracts, merged>>

\* The call reads rows: its record passed the checks and the columns of the
\* statement were found
ReadsRows(frame) ==
  /\ validate(frame.contract_data) = "none"
  /\ find_columns(frame.sheet).exc = "none"

\* Lines 101-108: one row of the statement
SessionReadRow ==
  /\ Running /\ call.entry = "calculate_payments_from_data"
  /\ ReadsRows(call)
  /\ call.at <= Len(call.sheet.rows)
  /\ call' = [call EXCEPT
                !.locals.song_totals =
                   read_row(@, call.sheet.rows[call.at],
                            find_columns(call.sheet).title_idx,
                            find_columns(call.sheet).payable_idx),
                !.at = @ + 1]
  /\ UNCHANGED <<contracts, merged, outcome>>

\* The call raises (lines 320, 322, 116, 328) or returns its payments
SessionCalculateReturn ==
  /\ Running /\ call.entry = "calculate_payments_from_data"
  /\ ReadsRows(call) => call.at > Len(call.sheet.rows)
  /\ outcome' =
       IF validate(call.contract_data) # "none"
       THEN Raised(validate(call.contract_data))
       ELSE IF find_columns(call.sheet).exc # "none"
       THEN Raised(find_columns(call.sheet).exc)
       ELSE calculate_return(call.contract_data, call.locals.song_totals)
  /\ call' = [call EXCEPT !.pc = "over"]
  /\ UNCHANGED <<contracts, merged>>

NextSession ==
  \/ SessionMerge
  \/ SessionMergeContract
  \/ SessionMergeReturn
  \/ SessionCalculate
  \/ SessionReadRow
  \/ SessionCalculateReturn

SpecSession == Init /\ [][NextSession]_vars

\* A call of the session is over
SessionCallOver == call # NoCall /\ call.pc = "over"

\* What the same call gives when it is the first call made on the object
AsFirstCall ==
  IF call.entry = "merge_contracts"
  THEN LET res == merge_contracts(call.contracts)
       IN  [exc |-> res.exc, returned |-> res.exc = "none", value |-> res.value]
  ELSE calculate_payments_from_data(call.contract_data, call.sheet, None, None)

\* C22: calls share no state: whatever calls of merge_contracts and
\* calculate_payments_from_data were made before on the same object, a call
\* gives what it gives as the first call, on its inputs alone; a key the
\* calls before have seen, or a title they have aggregated, suppresses and
\* adds nothing.
C22_CallsShareNoState == SessionCallOver => outcome = AsFirstCall

\* A merge has kept a work and a share whose keys the call before had seen
C22_Witness ==
  /\ SessionCallOver /\ call.entry = "merge_contracts"
  /\ outcome.returned
  /\ \E i \in DOMAIN outcome.value.works :
       WorkKey(outcome.value.works[i]) \in call.left.merge.seen_works
  /\ \E i \in DOMAIN outcome.value.royalty_shares :
       ShareKey(outcome.value.royalty_shares[i]) \in call.left.merge.seen_shares

----------------------------------------------------------------------------
(* calculate_payments_from_contracts step by step: the paths are parsed    *)
(* one at a time, then the records parsed are merged, then the payments    *)
(* are calculated from the merged record.  merged holds the call of        *)
(* merge_contracts the run makes.                                          *)

\* Lines 398-401: the call begins with an empty all_contracts_data
CalculateFromContractsBegins ==
  /\ call = NoCall \/ (call # NoCall /\ call.pc = "over")
  /\ \E parses \in SeqsUpTo(ParseResults, MaxContracts), sheet \in Sheets :
       call' = [entry |-> "calculate_payments_from_contracts",
                contract_data |-> None, parses |-> parses, sheet |-> sheet,
                at |-> 1, pc |-> "parsing", all_contracts_data |-> <<>>]
  /\ merged' = NotMerged
  /\ outcome' = NoOutcome
  /\ UNCHANGED contracts

\* Lines 402-407, one path: the record parsed is appended; a failure of the
\* parser is caught and printed, and the loop goes on
ParseContract ==
  /\ call # NoCall /\ call.pc = "parsing"
  /\ call.at <= Len(call.parses)
  /\ call' = [call EXCEPT
                !.all_contracts_data =
                   IF call.parses[call.at].exc = "none"
                   THEN Append(@, call.parses[call.at].value)
                   ELSE @,
                !.at = @ + 1]
  /\ UNCHANGED <<contracts, merged, outcome>>

\* Lines 409-410: no path was parsed
NoValidContracts ==
  /\ call # NoCall /\ call.pc = "parsing"
  /\ call.at > Len(call.parses)
  /\ call.all_contracts_data = <<>>
  /\ outcome' = Raised("ValueError: No valid contracts could be parsed")
  /\ call' = [call EXCEPT !.pc = "over"]
  /\ UNCHANGED <<contracts, merged>>

\* Line 413: merge_contracts(all_contracts_data)
MergeParsed ==
  /\ call # NoCall /\ call.pc = "parsing"
  /\ call.at > Len(call.parses)
  /\ call.all_contracts_data # <<>>
  /\ LET res == merge_contracts(call.all_contracts_data)
     IN  /\ merged' = [called |-> TRUE, input |-> call.all_contracts_data,
                       exc |-> res.exc, value |-> res.value]
         /\ IF res.exc # "none"
            THEN /\ outcome' = Raised(res.exc)
                 /\ call' = [call EXCEPT !.pc = "over"]
            ELSE /\ outcome' = outcome
                 /\ call' = [call EXCEPT !.pc = "calculating"]
  /\ UNCHANGED contracts

\* Lines 417-423: calculate_payments_from_data(merged_data, statement_path)
CalculateMerged ==
  /\ call # NoCall /\ call.pc = "calculating"
  /\ outcome' = calculate_payments_from_data(merged.value, call.sheet, None, None)
  /\ call' = [call EXCEPT !.pc = "over"]
  /\ UNCHANGED <<contracts, merged>>

NextContracts ==
  \/ CalculateFromContractsBegins
  \/ ParseContract
  \/ NoValidContracts
  \/ MergeParsed
  \/ CalculateMerged

SpecContracts == Init /\ [][NextContracts]_vars

\* A run of calculate_payments_from_contracts is over
ContractsRunOver ==
  call.entry = "calculate_payments_from_contracts" /\ call.pc = "over"

\* The parser failed on a path of the run
SomeParseFailed == \E i \in DOMAIN call.parses : call.parses[i].exc # "none"

\* The records of the paths the parser has read, in the order of the paths
ParsedInOrder ==
  LET ok == SelectSeq(call.parses, LAMBDA parsed : parsed.exc = "none")
  IN  [i \in DOMAIN ok |-> ok[i].value]

\* C24: in calculate_payments_from_contracts the contracts are parsed one
\* at a time in input order and merged in that order, and a partial merge
\* is not made: what is merged, and what payments are calculated from, is
\* never the records of only some of the paths given, and when the parser
\* fails on a path the run yields no payment list.
C24_NoPartialMerge ==
  call.entry = "calculate_payments_from_contracts" =>
    /\ merged.called =>
         /\ merged.input = ParsedInOrder
         /\ Len(merged.input) = Len(call.parses)
    /\ (ContractsRunOver /\ SomeParseFailed) => ~outcome.returned

====
